---- MODULE Spec2Model ----
(***************************************************************************)
(* The research-scoping workflow of research_agent_scope.py: a two-node    *)
(* LangGraph state graph (clarify_with_user, write_research_brief) run     *)
(* once by main.py.  The language model is the environment: each call      *)
(* either returns a value of the requested schema or raises.               *)
(***************************************************************************)
EXTENDS Integers, Sequences, FiniteSets, TLC

(* ------------------------------ bounds --------------------------------- *)
\* longest text (message content, question, verification, brief), in characters
MaxTextLen == 1
\* most messages in the Conversation State handed to invoke
MaxInitLen == 1
\* last calendar day (counted from the day of the invocation) a node may run on
MaxDay == 1
\* most direct calls of a node function on one state
MaxInvocations == 2

(* ------------------------------ values --------------------------------- *)
START == "__start__"
END == "__end__"
Nodes == {"clarify_with_user", "write_research_brief"}

Alphabet == {"a", "."}
Texts == UNION {[1..n -> Alphabet] : n \in 0..MaxTextLen}

\* the absent value of the optional research_brief channel
None == <<"None">>

HumanMessage(content) == [type |-> "human", content |-> content]
AIMessage(content) == [type |-> "ai", content |-> content]

Messages == {HumanMessage(c) : c \in Texts} \cup {AIMessage(c) : c \in Texts}
Inputs == UNION {[1..n -> Messages] : n \in 0..MaxInitLen}

\* the structured-output schemas requested from the model
ClarifyWithUser == [need_clarification : BOOLEAN, question : Texts, verification : Texts]
ResearchQuestion == [research_brief : Texts]

(* --------------------------- pure functions ---------------------------- *)
\* the readings of datetime.now() from calendar day `from` on: a day and an hour
Hours == {9, 20}
Instants(from) == {[day |-> d, hour |-> h] : d \in from..MaxDay, h \in Hours}

Weekday(day) == <<"Tue", "Wed", "Thu", "Fri", "Sat", "Sun", "Mon">>[(day % 7) + 1]

\* a faulty variant of get_today_str: the format keeps the hour
get_today_str_WithTime(instant) ==
    <<Weekday(instant.day), "Nov", 3 + instant.day, 2026, instant.hour>>

\* the current date in the format "%a %b %-d, %Y": the calendar day, no time of day
get_today_str(instant) == <<Weekday(instant.day), "Nov", 3 + instant.day, 2026>>

RolePrefix(m) == IF m.type = "human" THEN "Human" ELSE "AI"

\* the transcript: one "<Role>: <content>" line per message, joined by newlines
RECURSIVE get_buffer_string(_)
get_buffer_string(msgs) ==
    IF msgs = <<>> THEN <<>>
    ELSE LET m == Head(msgs)
             line == <<RolePrefix(m), ": ">> \o m.content
         IN IF Len(msgs) = 1 THEN line
            ELSE line \o <<"\n">> \o get_buffer_string(Tail(msgs))

\* a faulty variant of BriefPrompt: the transcript is rendered without the
\* message the Decider has just appended
BriefPrompt_OmitsLast(msgs, instant) ==
    [template |-> "transform_messages_into_research_topic_prompt",
     messages |-> get_buffer_string(SubSeq(msgs, 1, Len(msgs) - 1)),
     date |-> get_today_str(instant)]

\* the single HumanMessage handed to the structured-output model
ClarifyPrompt(msgs, instant) ==
    [template |-> "clarify_with_user_instructions",
     messages |-> get_buffer_string(msgs),
     date |-> get_today_str(instant)]

BriefPrompt(msgs, instant) ==
    [template |-> "transform_messages_into_research_topic_prompt",
     messages |-> get_buffer_string(msgs),
     date |-> get_today_str(instant)]

\* the reducer of the messages and supervisor_messages channels
add_messages(left, right) == left \o right

\* a channel after a node's update: a channel the update does not name is kept
ApplyMessages(old, update) ==
    IF "messages" \in DOMAIN update THEN add_messages(old, update.messages) ELSE old

ApplyResearchBrief(old, update) ==
    IF "research_brief" \in DOMAIN update THEN update.research_brief ELSE old

ApplySupervisorMessages(old, update) ==
    IF "supervisor_messages" \in DOMAIN update
    THEN add_messages(old, update.supervisor_messages) ELSE old

\* faulty variants of ClarifyCommand
\* the early exit is lost: the Composer follows both branches
ClarifyCommand_AlwaysProceeds(response) ==
    [goto |-> {"write_research_brief"},
     update |-> [messages |-> <<AIMessage(IF response.need_clarification
                                          THEN response.question
                                          ELSE response.verification)>>]]

\* the two texts of the verdict are exchanged
ClarifyCommand_Swapped(response) ==
    IF response.need_clarification
    THEN [goto |-> {},
          update |-> [messages |-> <<AIMessage(response.verification)>>]]
    ELSE [goto |-> {"write_research_brief"},
          update |-> [messages |-> <<AIMessage(response.question)>>]]

\* a clarification round re-enters the Decider
ClarifyCommand_LoopsBack(response) ==
    IF response.need_clarification
    THEN [goto |-> {"clarify_with_user"},
          update |-> [messages |-> <<AIMessage(response.question)>>]]
    ELSE [goto |-> {"write_research_brief"},
          update |-> [messages |-> <<AIMessage(response.verification)>>]]

\* what clarify_with_user returns for a verdict
ClarifyCommand(response) ==
    IF response.need_clarification
    THEN [goto |-> {},
          update |-> [messages |-> <<AIMessage(response.question)>>]]
    ELSE [goto |-> {"write_research_brief"},
          update |-> [messages |-> <<AIMessage(response.verification)>>]]

\* faulty variants of BriefUpdate
\* the supervisor message carries the brief without the period
BriefUpdate_NoPeriod(response) ==
    [research_brief |-> response.research_brief,
     supervisor_messages |-> <<HumanMessage(response.research_brief)>>]

\* the brief is handed to the supervisor but not stored
BriefUpdate_DropsBrief(response) ==
    [supervisor_messages |-> <<HumanMessage(response.research_brief \o <<".">>)>>]

\* the brief is also appended to the Conversation State
BriefUpdate_AppendsBrief(response) ==
    [research_brief |-> response.research_brief,
     messages |-> <<AIMessage(response.research_brief)>>,
     supervisor_messages |-> <<HumanMessage(response.research_brief \o <<".">>)>>]

\* the stored brief carries the period of the supervisor message
BriefUpdate_StoresWithPeriod(response) ==
    [research_brief |-> response.research_brief \o <<".">>,
     supervisor_messages |-> <<HumanMessage(response.research_brief \o <<".">>)>>]

\* what write_research_brief returns for a brief
BriefUpdate(response) ==
    [research_brief |-> response.research_brief,
     supervisor_messages |-> <<HumanMessage(response.research_brief \o <<".">>)>>]

\* a faulty variant of Edges: the Composer leads back to the Decider
Edges_Cycle(node) ==
    CASE node = START -> {"clarify_with_user"}
      [] node = "write_research_brief" -> {"clarify_with_user"}
      [] OTHER -> {}

\* the static edges of the graph: the nodes that follow a node (none: END)
Edges(node) ==
    CASE node = START -> {"clarify_with_user"}
      [] node = "write_research_brief" -> {}
      [] OTHER -> {}

\* the label of a set of successor nodes in the log of transitions
Targets(succ) == IF succ = {} THEN {END} ELSE succ

(* ------------------------------- state --------------------------------- *)
VARIABLES
    input,                \* the Conversation State handed to invoke
    status,               \* "idle", "running", "done" (END reached), "raised"
    scheduled,            \* the nodes the runtime will execute next
    messages,             \* Conversation State
    research_brief,       \* None or the brief
    supervisor_messages,  \* the supervisor channel
    now,                  \* the calendar day of the wall clock
    calls,                \* the model calls made: node, prompt, outcome
    transitions           \* the transitions taken: <<from, to>>

vars == <<input, status, scheduled, messages, research_brief, supervisor_messages,
          now, calls, transitions>>

Init ==
    /\ input = <<>>
    /\ status = "idle"
    /\ scheduled = {}
    /\ messages = <<>>
    /\ research_brief = None
    /\ supervisor_messages = <<>>
    /\ now = 0
    /\ calls = <<>>
    /\ transitions = <<>>

\* the runtime's bookkeeping after a node returned with successors succ
Route(node, succ) ==
    /\ scheduled' = (scheduled \ {node}) \cup succ
    /\ status' = IF scheduled' = {} THEN "done" ELSE "running"
    /\ transitions' = transitions \o
           [i \in 1..1 |-> <<node, CHOOSE t \in Targets(succ) : TRUE>>]

\* the runtime's bookkeeping after a node raised: the exception reaches the caller
Raise(node) ==
    /\ status' = "raised"
    /\ scheduled' = scheduled
    /\ transitions' = transitions

(* ------------------------------ actions -------------------------------- *)
\* main.py: scope.invoke({"messages": input}, config=thread)
invoke ==
    /\ status = "idle"
    /\ \E state \in Inputs :
          /\ input' = state
          /\ messages' = ApplyMessages(messages, [messages |-> state])
    /\ status' = "running"
    /\ scheduled' = Edges(START)
    /\ transitions' = transitions \o
           [i \in 1..1 |-> <<START, CHOOSE t \in Edges(START) : TRUE>>]
    /\ UNCHANGED <<research_brief, supervisor_messages, now, calls>>

\* a faulty variant of clarify_with_user: the update replaces the Conversation
\* State instead of extending it
clarify_with_user_overwrites ==
    /\ status = "running"
    /\ "clarify_with_user" \in scheduled
    /\ \E instant \in Instants(now), response \in ClarifyWithUser :
          LET command == ClarifyCommand(response) IN
          /\ now' = instant.day
          /\ calls' = Append(calls, [node |-> "clarify_with_user",
                                     prompt |-> ClarifyPrompt(messages, instant),
                                     ok |-> TRUE,
                                     response |-> response])
          /\ messages' = command.update.messages
          /\ research_brief' = ApplyResearchBrief(research_brief, command.update)
          /\ supervisor_messages' =
                 ApplySupervisorMessages(supervisor_messages, command.update)
          /\ Route("clarify_with_user", command.goto)
    /\ UNCHANGED input

\* clarify_with_user, the model call returning a verdict
clarify_with_user ==
    /\ status = "running"
    /\ "clarify_with_user" \in scheduled
    /\ \E instant \in Instants(now), response \in ClarifyWithUser :
          LET command == ClarifyCommand(response) IN
          /\ now' = instant.day
          /\ calls' = Append(calls, [node |-> "clarify_with_user",
                                     prompt |-> ClarifyPrompt(messages, instant),
                                     ok |-> TRUE,
                                     response |-> response])
          /\ messages' = ApplyMessages(messages, command.update)
          /\ research_brief' = ApplyResearchBrief(research_brief, command.update)
          /\ supervisor_messages' =
                 ApplySupervisorMessages(supervisor_messages, command.update)
          /\ Route("clarify_with_user", command.goto)
    /\ UNCHANGED input

\* a faulty variant of clarify_with_user_raises: the failure is caught and the
\* node is left scheduled, so that the call is made again
clarify_with_user_retries ==
    /\ status = "running"
    /\ "clarify_with_user" \in scheduled
    /\ \E instant \in Instants(now) :
          /\ now' = instant.day
          /\ calls' = Append(calls, [node |-> "clarify_with_user",
                                     prompt |-> ClarifyPrompt(messages, instant),
                                     ok |-> FALSE])
    /\ UNCHANGED <<input, status, scheduled, transitions, messages,
                   research_brief, supervisor_messages>>

\* clarify_with_user, the model call raising
clarify_with_user_raises ==
    /\ status = "running"
    /\ "clarify_with_user" \in scheduled
    /\ \E instant \in Instants(now) :
          /\ now' = instant.day
          /\ calls' = Append(calls, [node |-> "clarify_with_user",
                                     prompt |-> ClarifyPrompt(messages, instant),
                                     ok |-> FALSE])
    /\ Raise("clarify_with_user")
    /\ UNCHANGED <<input, messages, research_brief, supervisor_messages>>

\* write_research_brief, the model call returning a brief
write_research_brief ==
    /\ status = "running"
    /\ "write_research_brief" \in scheduled
    /\ \E instant \in Instants(now), response \in ResearchQuestion :
          LET update == BriefUpdate(response) IN
          /\ now' = instant.day
          /\ calls' = Append(calls, [node |-> "write_research_brief",
                                     prompt |-> BriefPrompt(messages, instant),
                                     ok |-> TRUE,
                                     response |-> response])
          /\ messages' = ApplyMessages(messages, update)
          /\ research_brief' = ApplyResearchBrief(research_brief, update)
          /\ supervisor_messages' =
                 ApplySupervisorMessages(supervisor_messages, update)
    /\ Route("write_research_brief", Edges("write_research_brief"))
    /\ UNCHANGED input

\* a faulty variant of write_research_brief_raises: the failure is caught and
\* the run ends with an empty brief
write_research_brief_falls_back ==
    /\ status = "running"
    /\ "write_research_brief" \in scheduled
    /\ \E instant \in Instants(now) :
          /\ now' = instant.day
          /\ calls' = Append(calls, [node |-> "write_research_brief",
                                     prompt |-> BriefPrompt(messages, instant),
                                     ok |-> FALSE])
    /\ research_brief' = <<>>
    /\ Route("write_research_brief", Edges("write_research_brief"))
    /\ UNCHANGED <<input, messages, supervisor_messages>>

\* write_research_brief, the model call raising
write_research_brief_raises ==
    /\ status = "running"
    /\ "write_research_brief" \in scheduled
    /\ \E instant \in Instants(now) :
          /\ now' = instant.day
          /\ calls' = Append(calls, [node |-> "write_research_brief",
                                     prompt |-> BriefPrompt(messages, instant),
                                     ok |-> FALSE])
    /\ Raise("write_research_brief")
    /\ UNCHANGED <<input, messages, research_brief, supervisor_messages>>

Next ==
    \/ invoke
    \/ clarify_with_user
    \/ clarify_with_user_raises
    \/ write_research_brief
    \/ write_research_brief_raises

Spec == Init /\ [][Next]_vars

\* the runtime runs every scheduled node and every model call ends
FairSpec == Spec /\ WF_vars(Next)

(* -------------------- the Decider called directly ---------------------- *)
\* the states a caller may hand to a node function: with a messages key, or
\* without one
NoMessagesKey == [research_brief |-> None]
NodeStates == {[messages |-> m] : m \in Inputs} \cup {NoMessagesKey}

\* state.get("messages", [])
StateMessages(state) ==
    IF "messages" \in DOMAIN state THEN state.messages ELSE <<>>

\* deterministic model stubs: the response is a function of the prompt
Stubs == {"constant", "by_transcript", "by_date", "by_both"}

DateNumber(date) == date[3] + (IF Len(date) > 4 THEN date[5] ELSE 0)

StubResponse(stub, prompt) ==
    LET empty == prompt.messages = <<>>
        odd == DateNumber(prompt.date) % 2 = 1
    IN CASE stub = "constant" ->
                [need_clarification |-> FALSE, question |-> <<>>,
                 verification |-> <<"a">>]
         [] stub = "by_transcript" ->
                [need_clarification |-> empty, question |-> <<"a">>,
                 verification |-> <<".">>]
         [] stub = "by_date" ->
                [need_clarification |-> odd, question |-> <<"a">>,
                 verification |-> <<"a">>]
         [] OTHER ->
                [need_clarification |-> (empty /\ odd), question |-> <<".">>,
                 verification |-> IF odd THEN <<"a">> ELSE <<>>]

\* in NodeSpec, input is the state handed to clarify_with_user
NodeInit ==
    /\ input \in NodeStates
    /\ status = "running"
    /\ scheduled = {"clarify_with_user"}
    /\ messages = StateMessages(input)
    /\ research_brief = None
    /\ supervisor_messages = <<>>
    /\ now = 0
    /\ calls = <<>>
    /\ transitions = <<>>

\* a faulty variant of clarify_with_user_called: an empty transcript is rejected
\* before the model is called
clarify_with_user_called_guarded ==
    /\ Len(calls) < MaxInvocations
    /\ StateMessages(input) # <<>>
    /\ \E instant \in Instants(now), stub \in Stubs :
          LET prompt == ClarifyPrompt(StateMessages(input), instant)
              response == StubResponse(stub, prompt)
          IN /\ calls # <<>> => stub = calls[1].stub
             /\ now' = instant.day
             /\ calls' = Append(calls, [node |-> "clarify_with_user",
                                        prompt |-> prompt,
                                        ok |-> TRUE,
                                        response |-> response,
                                        stub |-> stub,
                                        at |-> instant,
                                        command |-> ClarifyCommand(response)])
    /\ UNCHANGED <<input, status, scheduled, messages, research_brief,
                   supervisor_messages, transitions>>

\* clarify_with_user(state) called as a function, the model being a
\* deterministic stub (the same one at every call): the Command is returned
\* and the state is left as it is
clarify_with_user_called ==
    /\ Len(calls) < MaxInvocations
    /\ \E instant \in Instants(now), stub \in Stubs :
          LET prompt == ClarifyPrompt(StateMessages(input), instant)
              response == StubResponse(stub, prompt)
          IN /\ calls # <<>> => stub = calls[1].stub
             /\ now' = instant.day
             /\ calls' = Append(calls, [node |-> "clarify_with_user",
                                        prompt |-> prompt,
                                        ok |-> TRUE,
                                        response |-> response,
                                        stub |-> stub,
                                        at |-> instant,
                                        command |-> ClarifyCommand(response)])
    /\ UNCHANGED <<input, status, scheduled, messages, research_brief,
                   supervisor_messages, transitions>>

NodeNext == clarify_with_user_called

NodeSpec == NodeInit /\ [][NodeNext]_vars

(* ----------------------- vocabulary of the claims ---------------------- *)
\* the Decider's model call returned a verdict
DeciderReturned ==
    /\ Len(calls) >= 1
    /\ calls[1].node = "clarify_with_user"
    /\ calls[1].ok

Verdict == calls[1].response

NeedsClarification == DeciderReturned /\ Verdict.need_clarification
Proceeds == DeciderReturned /\ ~Verdict.need_clarification

\* the number of executions of a node so far (each execution makes one model call)
Executions(node) == Cardinality({i \in 1..Len(calls) : calls[i].node = node})

\* this step is a completed execution of the node
Completes(node) ==
    /\ Len(calls') = Len(calls) + 1
    /\ calls'[Len(calls')].node = node
    /\ calls'[Len(calls')].ok

Returned == calls'[Len(calls')].response

\* the messages appended to the Conversation State since invocation
Appended == SubSeq(messages, Len(input) + 1, Len(messages))

AllowedTransitions ==
    {<<START, "clarify_with_user">>,
     <<"clarify_with_user", "write_research_brief">>,
     <<"clarify_with_user", END>>,
     <<"write_research_brief", END>>}

(* ------------------------------- claims -------------------------------- *)
\* C1: once the Decider has a verdict with need_clarification = TRUE, the run is
\* at END, write_research_brief has not executed and never will (END is final),
\* the brief is absent, and the Conversation State is the input followed by
\* exactly one assistant message carrying the question.
C1_ClarificationEndsRun ==
    NeedsClarification =>
        /\ status = "done"
        /\ scheduled = {}
        /\ Executions("write_research_brief") = 0
        /\ research_brief = None
        /\ messages = input \o <<AIMessage(Verdict.question)>>
        /\ transitions = << <<START, "clarify_with_user">>,
                            <<"clarify_with_user", END>> >>

C1_Witness ==
    /\ NeedsClarification
    /\ status = "done"
    /\ input # <<>>
    /\ Verdict.question # Verdict.verification
    /\ messages[Len(messages)] = AIMessage(Verdict.question)

\* C2: once the Decider has a verdict with need_clarification = FALSE, the run
\* has gone from clarify_with_user to write_research_brief; while the Composer
\* has not run it is the one scheduled node; when the run is at END the Composer
\* was the last node, nothing followed it, and the brief is present and is the
\* text the Composer's model call returned.
C2_ProceedsToBriefThenEnd ==
    Proceeds =>
        /\ Len(transitions) >= 2
        /\ transitions[1] = <<START, "clarify_with_user">>
        /\ transitions[2] = <<"clarify_with_user", "write_research_brief">>
        /\ status \in {"running", "done", "raised"}
        /\ status = "running" =>
               /\ scheduled = {"write_research_brief"}
               /\ Len(calls) = 1
               /\ Len(transitions) = 2
        /\ status = "raised" =>
               /\ Len(calls) = 2
               /\ ~calls[2].ok
        /\ status = "done" =>
               /\ scheduled = {}
               /\ Len(transitions) = 3
               /\ transitions[3] = <<"write_research_brief", END>>
               /\ Len(calls) = 2
               /\ calls[2].node = "write_research_brief"
               /\ calls[2].ok
               /\ research_brief # None
               /\ research_brief = calls[2].response.research_brief

C2_Witness ==
    /\ Proceeds
    /\ status = "done"
    /\ research_brief = <<"a">>
    /\ input # <<>>

\* C3: at END the brief is present exactly when the verdict was
\* need_clarification = FALSE, and when the brief is absent the last message of
\* the Conversation State is the assistant message carrying the question.
C3_OutcomesDistinguishable ==
    status = "done" =>
        /\ DeciderReturned
        /\ (research_brief # None) <=> Proceeds
        /\ research_brief = None =>
               /\ messages # <<>>
               /\ messages[Len(messages)] = AIMessage(Verdict.question)

C3_Witness ==
    /\ status = "done"
    /\ research_brief = None
    /\ Verdict.question = <<"a">>
    /\ Verdict.verification = <<".">>
    /\ Len(messages) = 2

\* C4: a step in which clarify_with_user completes turns the Conversation State
\* into the old one followed by one assistant message: the question when
\* need_clarification is TRUE, the verification when it is FALSE.
C4_DeciderAppendsOne ==
    [][Completes("clarify_with_user") =>
          messages' = messages \o
              <<AIMessage(IF Returned.need_clarification
                          THEN Returned.question
                          ELSE Returned.verification)>>]_vars

C4_Witness ==
    /\ Proceeds
    /\ Len(calls) = 1
    /\ Verdict.question # Verdict.verification
    /\ input # <<>>
    /\ Appended = <<AIMessage(Verdict.verification)>>

\* C5 as stated: at END after a verdict with need_clarification = FALSE, two
\* assistant messages have been appended to the Conversation State.
C5_TwoAssistantMessages ==
    (status = "done" /\ Proceeds) =>
        /\ Len(Appended) = 2
        /\ \A i \in 1..Len(Appended) : Appended[i].type = "ai"

\* C5, amended: at END after a verdict with need_clarification = FALSE, exactly
\* one assistant message, the verification, has been appended to the
\* Conversation State across the whole run.
C5_OneAssistantMessage ==
    (status = "done" /\ Proceeds) =>
        /\ Len(Appended) = 1
        /\ Appended[1] = AIMessage(Verdict.verification)
        /\ SubSeq(messages, 1, Len(input)) = input

C5_Witness ==
    /\ status = "done"
    /\ Proceeds
    /\ Len(input) = 1
    /\ Len(messages) = 2
    /\ research_brief # None

\* C6: a step in which write_research_brief completes leaves the Conversation
\* State unchanged, sets the research brief to the returned text and leaves on
\* the supervisor channel exactly one message: the brief followed by a period.
C6_ComposerFrame ==
    [][Completes("write_research_brief") =>
          /\ messages' = messages
          /\ input' = input
          /\ research_brief' = Returned.research_brief
          /\ supervisor_messages' =
                 <<HumanMessage(Returned.research_brief \o <<".">>)>>]_vars

C6_Witness ==
    /\ Executions("write_research_brief") = 1
    /\ research_brief = <<".">>
    /\ supervisor_messages = <<HumanMessage(<<".", ".">>)>>
    /\ messages = input \o <<AIMessage(Verdict.verification)>>

\* C7: when the Decider's model call raises, the run is aborted for good: END
\* is not reached, the Conversation State is the input, there is no verdict,
\* the call was made once, and write_research_brief has not executed.
C7_DeciderFailureAborts ==
    (Len(calls) >= 1 /\ calls[1].node = "clarify_with_user" /\ ~calls[1].ok) =>
        /\ status = "raised"
        /\ Len(calls) = 1
        /\ messages = input
        /\ research_brief = None
        /\ supervisor_messages = <<>>
        /\ transitions = << <<START, "clarify_with_user">> >>

C7_Witness ==
    /\ status = "raised"
    /\ Len(calls) = 1
    /\ ~calls[1].ok
    /\ input # <<>>

\* C8: at most one node is scheduled at a time, each node executes at most
\* once, write_research_brief executes only after clarify_with_user completed,
\* and every transition taken is one of the four of the graph.
C8_NoCycles ==
    /\ Cardinality(scheduled) <= 1
    /\ Executions("clarify_with_user") <= 1
    /\ Executions("write_research_brief") <= 1
    /\ \A i \in 1..Len(calls) :
           calls[i].node = "write_research_brief" =>
               \E j \in 1..(i - 1) :
                   calls[j].node = "clarify_with_user" /\ calls[j].ok
    /\ \A i \in 1..Len(transitions) : transitions[i] \in AllowedTransitions
    /\ \A i, j \in 1..Len(transitions) :
           transitions[i][1] = transitions[j][1] => i = j

C8_Witness ==
    /\ status = "done"
    /\ Len(transitions) = 3
    /\ Executions("clarify_with_user") = 1
    /\ Executions("write_research_brief") = 1

\* C9: a run in which no model call raises reaches END, after one node
\* execution when clarification is needed and after two otherwise.
C9_Terminates ==
    /\ ([](status # "raised")) => <>(status = "done")
    /\ [](status = "done" =>
              Len(calls) = IF Verdict.need_clarification THEN 1 ELSE 2)

C9_Witness ==
    /\ status = "done"
    /\ Len(calls) = 2
    /\ \A i \in 1..Len(calls) : calls[i].ok

\* C10: the brief is absent until write_research_brief has completed, it is
\* written by one execution only, and once set it never changes.
C10_BriefWrittenOnce ==
    /\ [](research_brief # None =>
              /\ Executions("write_research_brief") = 1
              /\ calls[Len(calls)].node = "write_research_brief"
              /\ calls[Len(calls)].ok)
    /\ [][research_brief # None => research_brief' = research_brief]_vars
    /\ [][research_brief' # research_brief =>
              Completes("write_research_brief")]_vars

C10_Witness ==
    /\ research_brief # None
    /\ research_brief # <<>>
    /\ status = "done"

\* C11 as stated: whenever write_research_brief has completed, the stored
\* research brief is a non-empty text.
C11_BriefNonEmpty ==
    (\E i \in 1..Len(calls) : calls[i].node = "write_research_brief" /\ calls[i].ok)
        => (research_brief # None /\ research_brief # <<>>)

\* C12: every step leaves the old Conversation State as a prefix of the new one,
\* and from invocation on the first message is the first message of the input.
C12_MessagesMonotonic ==
    /\ [][/\ Len(messages') >= Len(messages)
          /\ SubSeq(messages', 1, Len(messages)) = messages]_vars
    /\ [](status # "idle" =>
              /\ Len(messages) >= Len(input)
              /\ SubSeq(messages, 1, Len(input)) = input)

C12_Witness ==
    /\ Len(input) = 1
    /\ input[1].type = "human"
    /\ Len(messages) = 2
    /\ messages[1] = input[1]
    /\ status = "done"
    /\ Len(calls) = 2

\* C15: the transcript every execution of write_research_brief renders for its
\* model call is that of the input followed by the assistant message carrying
\* the Decider's verification.
C15_ComposerSeesVerification ==
    \A i \in 1..Len(calls) :
        calls[i].node = "write_research_brief" =>
            /\ Proceeds
            /\ calls[i].prompt.messages =
                   get_buffer_string(input \o <<AIMessage(Verdict.verification)>>)

C15_Witness ==
    /\ Len(calls) = 2
    /\ calls[2].node = "write_research_brief"
    /\ input # <<>>
    /\ Verdict.verification = <<"a">>
    /\ Verdict.question = <<".">>
    /\ calls[2].prompt.messages =
           get_buffer_string(input) \o <<"\n", "AI", ": ", "a">>

\* C16: when the Composer's model call raises, the run is aborted for good: END
\* is not reached, the call was made once, the brief is absent, the supervisor
\* channel is empty, and the Conversation State still ends with the
\* verification the Decider appended.
C16_ComposerFailureAborts ==
    (\E i \in 1..Len(calls) : calls[i].node = "write_research_brief" /\ ~calls[i].ok) =>
        /\ status = "raised"
        /\ Len(calls) = 2
        /\ Executions("write_research_brief") = 1
        /\ Proceeds
        /\ research_brief = None
        /\ supervisor_messages = <<>>
        /\ messages = input \o <<AIMessage(Verdict.verification)>>
        /\ transitions = << <<START, "clarify_with_user">>,
                            <<"clarify_with_user", "write_research_brief">> >>

C16_Witness ==
    /\ status = "raised"
    /\ Len(calls) = 2
    /\ ~calls[2].ok
    /\ input # <<>>
    /\ Appended = <<AIMessage(Verdict.verification)>>

\* C13 as stated: any two calls of clarify_with_user on the same Conversation
\* State with the same deterministic stub return the same verdict, hence the
\* same routing target and the same appended message.
C13_SameStateSameVerdict ==
    \A i, j \in 1..Len(calls) :
        /\ calls[i].response = calls[j].response
        /\ calls[i].command = calls[j].command

\* C13, amended: any two calls of clarify_with_user on the same Conversation
\* State, on the same calendar day, with the same deterministic stub return the
\* same verdict, hence the same routing target and the same appended message.
C13_SameStateSameDaySameVerdict ==
    \A i, j \in 1..Len(calls) :
        calls[i].at.day = calls[j].at.day =>
            /\ calls[i].prompt = calls[j].prompt
            /\ calls[i].response = calls[j].response
            /\ calls[i].command = calls[j].command

C13_Witness ==
    /\ Len(calls) = 2
    /\ calls[1].stub = "by_date"
    /\ calls[1].at.day = calls[2].at.day
    /\ calls[1].at.hour # calls[2].at.hour
    /\ StateMessages(input) # <<>>
    /\ calls[1].response = calls[2].response

\* C14: on a state with no messages, or with no messages key, clarify_with_user
\* can always be called (no input error), calls the model with the empty
\* transcript, and returns the routing of the verdict with exactly one assistant
\* message: the question or the verification.
C14_EmptyStateNotGuarded ==
    StateMessages(input) = <<>> =>
        /\ Len(calls) < MaxInvocations => ENABLED clarify_with_user_called
        /\ \A i \in 1..Len(calls) :
               LET r == calls[i].response
                   c == calls[i].command
               IN /\ calls[i].ok
                  /\ calls[i].prompt.messages = <<>>
                  /\ c.goto = IF r.need_clarification
                              THEN {} ELSE {"write_research_brief"}
                  /\ c.update.messages =
                         <<AIMessage(IF r.need_clarification
                                     THEN r.question ELSE r.verification)>>

C14_Witness ==
    /\ input = NoMessagesKey
    /\ Len(calls) = 2
    /\ calls[1].response.need_clarification
    /\ ~calls[2].response.need_clarification

====
